---- MODULE Spec2Model ----
(***************************************************************************)
(* GeigerSynVisitor (geiger/src/geiger_syn_visitor.rs): the syn visitor    *)
(* that counts safe / unsafe constructs of one parsed Rust file and prints *)
(* one statistics line for every unsafe scope it leaves.                   *)
(*                                                                         *)
(* The traversal is a depth-first walk; the model keeps the call stack of  *)
(* the visit_* handlers explicitly.  The syntax tree is not fixed up       *)
(* front: every handler call draws the node it is called on (its kind, its *)
(* markers and the number of its children) from a bounded set, so the      *)
(* reachable behaviours are the scans of all trees within the bounds.      *)
(* A node commits to its number of children when it is entered, exactly as *)
(* block.stmts.len() is known to the code at that point.                   *)
(***************************************************************************)
EXTENDS Integers, Sequences, FiniteSets, TLC

\* ---------------------------------------------------------------- bounds
\* Number of syntax-tree nodes below the File node.
MaxNodes == 3
\* Largest number of children (items, statements, operands) of one node.
MaxChildren == 2

VARIABLES
    include_tests,   \* GeigerSynVisitor.include_tests: "Yes" | "No"
    metrics,         \* GeigerSynVisitor.metrics: forbids_unsafe + counters
    unsafe_scopes,   \* GeigerSynVisitor.unsafe_scopes (u32)
    unsafe_stat,     \* GeigerSynVisitor.unsafe_stat (the single UnsafeStat)
    output,          \* lines printed on stdout by UnsafeStat::stat
    stack,           \* call stack of the visit_* handlers, innermost last
    pc,              \* "new" | "scan" | "done" | "overflow"
    nid,             \* number of nodes handed to a handler so far
    last,            \* history: the node this step handed to a handler, if any
    closed,          \* history: the scope that was left for each output line
    attr_opens,      \* history: attribute-only unsafe fns entered so far
    seen_region,     \* history: some node so far carried an unsafe marker
    recent           \* history: the unsafe scope entered most recently

vars == <<include_tests, metrics, unsafe_scopes, unsafe_stat, output, stack,
          pc, nid, last, closed, attr_opens, seen_region, recent>>

\* ------------------------------------------------------------ syntax tree
\* Expr variants told apart by visit_expr / visit_expr_unary.  "Deref" is
\* Expr::Unary with UnOp::Deref, "Neg" is Expr::Unary with another operator,
\* "Other" stands for every remaining Expr variant (call, block, if, ...).
\* A unary expression has one operand; with no child to walk (n = 0) the
\* operand is a bare path or a literal, the empty arm of visit_expr.
ExprKinds == {"Unsafe", "Path", "Lit", "Deref", "Neg", "Other"}

\* Nodes whose children are statements (a Block).
StmtParents == {"Fn", "Unsafe", "Method", "Other"}
\* Nodes under which an Item may occur (Stmt::Item inside a block as well).
ItemParents == {"File", "Mod"} \cup StmtParents
\* Nodes under which an Expr may occur (statement or operand position).
ExprParents == StmtParents \cup {"Deref", "Neg"}

NoNode == [kind |-> "None", id |-> 0, unsafety |-> FALSE, attr |-> FALSE,
           test |-> FALSE]

\* ------------------------------------------------------------------ stack
Top == stack[Len(stack)]

Frame(kind, n, unsafety, attr) ==
    [kind |-> kind, rem |-> n, unsafety |-> unsafety, attr |-> attr,
     n |-> n, id |-> nid + 1, d0 |-> unsafe_scopes, a0 |-> attr_opens,
     deref |-> FALSE, e0 |-> metrics.counters.exprs, triv |-> TRUE]

\* The node a handler is called on, as the history keeps it.
Node(kind, unsafety, attr, test) ==
    [kind |-> kind, id |-> nid + 1, unsafety |-> unsafety, attr |-> attr,
     test |-> test]

\* The caller moves on to its next child.
Consume(s) == [s EXCEPT ![Len(s)].rem = @ - 1]

\* The same, the history noting a child that is no bare path and no literal.
Child(s) == [Consume(s) EXCEPT ![Len(s)].triv = FALSE]

RECURSIVE Pending(_)
Pending(s) == IF s = <<>> THEN 0 ELSE s[Len(s)].rem + Pending(SubSeq(s, 1, Len(s) - 1))

\* A node with n children still fits in the tree.
Fits(n) == nid + Pending(stack) + n <= MaxNodes

CanVisit(parents) ==
    /\ pc = "scan"
    /\ stack # <<>>
    /\ Top.kind \in parents
    /\ Top.rem > 0

\* --------------------------------------------------- the code, as operators
\* Count::count (RsFileMetrics counters): one bucket of one category.
count(c, is_unsafe) ==
    IF is_unsafe THEN [c EXCEPT !.unsafe_ = @ + 1] ELSE [c EXCEPT !.safe = @ + 1]

\* GeigerSynVisitor::new
new(policy) ==
    [include_tests |-> policy,
     metrics |-> [forbids_unsafe |-> FALSE,
                  counters |-> [functions   |-> [safe |-> 0, unsafe_ |-> 0],
                                exprs       |-> [safe |-> 0, unsafe_ |-> 0],
                                item_impls  |-> [safe |-> 0, unsafe_ |-> 0],
                                item_traits |-> [safe |-> 0, unsafe_ |-> 0],
                                methods     |-> [safe |-> 0, unsafe_ |-> 0]]],
     unsafe_scopes |-> 0,
     unsafe_stat |-> [expr_prev |-> 0, expr_curr |-> 0, stmt |-> 0,
                      block_type |-> "Inner", block |-> 0, has_deref |-> FALSE]]

\* Variant: the increment is lost.
enter_unsafe_scope_lost(scopes) == scopes

\* enter_unsafe_scope: self.unsafe_scopes += 1
enter_unsafe_scope(scopes) == scopes + 1

\* Variant: the statement count is not recorded.
init_unsafe_stat_no_stmt(st, block_type, block, stmt, exprs_unsafe) ==
    [st EXCEPT !.block_type = block_type,
               !.block = block,
               !.expr_prev = exprs_unsafe]

\* Variant: the expression baseline is not recorded.
init_unsafe_stat_keeps_baseline(st, block_type, block, stmt, exprs_unsafe) ==
    [st EXCEPT !.block_type = block_type,
               !.block = block,
               !.stmt = stmt]

\* Variant: the baseline is taken one expression too late.
init_unsafe_stat_late_baseline(st, block_type, block, stmt, exprs_unsafe) ==
    [st EXCEPT !.block_type = block_type,
               !.block = block,
               !.expr_prev = exprs_unsafe + 1,
               !.stmt = stmt]

\* Variant: the rendered source is not recorded.
init_unsafe_stat_no_block(st, block_type, block, stmt, exprs_unsafe) ==
    [st EXCEPT !.block_type = block_type,
               !.expr_prev = exprs_unsafe,
               !.stmt = stmt]

\* init_unsafe_stat: block is the rendered source of the node, modelled by the
\* node's identity; has_deref and expr_curr are not assigned.
init_unsafe_stat(st, block_type, block, stmt, exprs_unsafe) ==
    [st EXCEPT !.block_type = block_type,
               !.block = block,
               !.expr_prev = exprs_unsafe,
               !.stmt = stmt]

\* Variant: depth 0 taken for an unsafe scope.
in_unsafe_scope_at_zero(scopes) == scopes >= 0

\* self.unsafe_scopes > 0
in_unsafe_scope(scopes) == scopes > 0

\* Variant: the attributes are not looked at.
unsafe_fn_marker_only(unsafety, attr) == unsafety

\* item_fn.sig.unsafety.is_some() || has_unsafe_attributes(item_fn)
unsafe_fn(unsafety, attr) == unsafety \/ attr

\* Variant: the scope is left whenever it was entered.
fn_exits_scope_symmetric(unsafety, attr) == unsafety \/ attr

\* visit_item_fn, after the recursion: if item_fn.sig.unsafety.is_some()
fn_exits_scope(unsafety, attr) == unsafety

\* Variant: test items are never left out.
excluded_never(policy, test) == FALSE

\* IncludeTests::No == self.include_tests && is_test_fn(item_fn) / is_test_mod(i)
excluded(policy, test) == policy = "No" /\ test

\* Variant: an impl or trait classified by the depth counter.
item_is_unsafe_by_depth(unsafety, scopes) == scopes > 0

\* visit_item_impl / visit_item_trait: i.unsafety.is_some()
item_is_unsafe(unsafety, scopes) == unsafety

\* Variant: an unsafe block takes the `other` arm.
expr_arm_unsafe_counted(kind) ==
    CASE kind \in {"Path", "Lit"} -> "trivial"
      [] OTHER -> "other"

\* Variant: a bare path takes the `other` arm.
expr_arm_path_counted(kind) ==
    CASE kind = "Unsafe" -> "unsafe"
      [] kind = "Lit" -> "trivial"
      [] OTHER -> "other"

\* The arm of the match in visit_expr an expression takes.
expr_arm(kind) ==
    CASE kind = "Unsafe" -> "unsafe"
      [] kind \in {"Path", "Lit"} -> "trivial"
      [] OTHER -> "other"

\* if let UnOp::Deref(_) = i.op
is_deref(kind) == kind = "Deref"

\* The u32 / usize subtractions of exit_unsafe_scope and stat are in range.
exit_in_range(scopes, st, exprs_unsafe) ==
    scopes >= 1 /\ exprs_unsafe >= st.expr_prev

\* exit_unsafe_scope, first two statements.
exit_unsafe_scope(st, exprs_unsafe) == [st EXCEPT !.expr_curr = exprs_unsafe]

\* UnsafeStat::stat: the line it prints ...
stat_line(st) ==
    [block |-> st.block, block_type |-> st.block_type,
     expr |-> st.expr_curr - st.expr_prev, stmt |-> st.stmt,
     deref |-> st.has_deref]

\* ... and the record it leaves behind.
stat(st) == [st EXCEPT !.has_deref = FALSE]

\* ------------------------------------------------------------ history only
MarkDeref(s) == [i \in DOMAIN s |-> [s[i] EXCEPT !.deref = TRUE]]

ClosedOf(f) ==
    [id |-> f.id, kind |-> f.kind, stmt |-> f.n, deref |-> f.deref,
     end |-> nid, eu |-> metrics.counters.exprs.unsafe_, slot |-> recent]

\* The scope a handler enters, as the history keeps it: the node, its shape,
\* its direct statements and the unsafe expressions counted before it.
Entered(shape, n) ==
    [id |-> nid + 1, shape |-> shape, stmt |-> n,
     eu0 |-> metrics.counters.exprs.unsafe_]

\* A frame whose node is an unsafe scope of the source text: an unsafe block,
\* a function unsafe by marker or by attribute, an unsafe method.
IsRegion(f) ==
    \/ f.kind = "Unsafe"
    \/ f.kind = "Fn" /\ (f.unsafety \/ f.attr)
    \/ f.kind = "Method" /\ f.unsafety

\* Number of unsafe scopes of the source text that enclose the current node.
LexDepth(s) == Cardinality({i \in DOMAIN s : IsRegion(s[i])})

\* Number of open handlers that will call exit_unsafe_scope when they return.
Exiting(s) ==
    Cardinality({i \in DOMAIN s :
        \/ s[i].kind = "Unsafe"
        \/ s[i].kind \in {"Fn", "Method"} /\ s[i].unsafety})

\* ------------------------------------------------------------------- Init
Init ==
    \E policy \in {"Yes", "No"} :
        /\ include_tests = new(policy).include_tests
        /\ metrics = new(policy).metrics
        /\ unsafe_scopes = new(policy).unsafe_scopes
        /\ unsafe_stat = new(policy).unsafe_stat
        /\ output = <<>>
        /\ stack = <<>>
        /\ pc = "new"
        /\ nid = 0
        /\ last = NoNode
        /\ closed = <<>>
        /\ attr_opens = 0
        /\ seen_region = FALSE
        /\ recent = [id |-> 0, shape |-> "None", stmt |-> 0, eu0 |-> 0]

\* ---------------------------------------------------------------- actions
\* A handler returns without touching the visitor: the node is consumed.
Skip(node) ==
    /\ Fits(0)
    /\ stack' = Child(stack)
    /\ nid' = nid + 1
    /\ last' = node
    /\ UNCHANGED <<include_tests, metrics, unsafe_scopes, unsafe_stat, output,
                   pc, closed, attr_opens, recent>>

\* The tail of a handler that leaves an unsafe scope: exit_unsafe_scope.  An
\* out-of-range subtraction panics (overflow checks on) or wraps (off); both
\* end the modelled scan in pc = "overflow".
LeaveScope ==
    IF exit_in_range(unsafe_scopes, unsafe_stat, metrics.counters.exprs.unsafe_)
    THEN LET st == exit_unsafe_scope(unsafe_stat, metrics.counters.exprs.unsafe_) IN
         /\ unsafe_scopes' = unsafe_scopes - 1
         /\ output' = Append(output, stat_line(st))
         /\ unsafe_stat' = stat(st)
         /\ closed' = Append(closed, ClosedOf(Top))
         /\ stack' = SubSeq(stack, 1, Len(stack) - 1)
         /\ UNCHANGED pc
    ELSE /\ pc' = "overflow"
         /\ UNCHANGED <<unsafe_scopes, output, unsafe_stat, closed, stack>>

\* The tail of a handler that only returns.
LeaveOnly ==
    /\ stack' = SubSeq(stack, 1, Len(stack) - 1)
    /\ UNCHANGED <<unsafe_scopes, output, unsafe_stat, closed, pc>>

CanReturn(kinds) ==
    /\ pc = "scan"
    /\ stack # <<>>
    /\ Top.kind \in kinds
    /\ Top.rem = 0

\* visit_file up to the walk over the items.
visit_file(n, forbids) ==
    /\ pc = "new"
    /\ n <= MaxNodes
    /\ pc' = "scan"
    /\ metrics' = [metrics EXCEPT !.forbids_unsafe = forbids]
    /\ stack' = <<[Frame("File", n, FALSE, FALSE) EXCEPT !.id = 0]>>
    /\ UNCHANGED <<include_tests, unsafe_scopes, unsafe_stat, output, nid, last,
                   closed, attr_opens, seen_region, recent>>

\* visit_file returns: the scan is over.
visit_file_return ==
    /\ CanReturn({"File"})
    /\ pc' = "done"
    /\ stack' = <<>>
    /\ last' = NoNode
    /\ UNCHANGED <<include_tests, metrics, unsafe_scopes, unsafe_stat, output,
                   nid, closed, attr_opens, seen_region, recent>>

\* visit_item_fn up to the recursion into the function.
visit_item_fn(unsafety, attr, test, n) ==
    /\ CanVisit(ItemParents)
    /\ seen_region' = (seen_region \/ unsafety \/ attr)
    /\ IF excluded(include_tests, test)
       THEN Skip(Node("Fn", unsafety, attr, test))
       ELSE /\ Fits(n)
            /\ IF unsafe_fn(unsafety, attr)
               THEN /\ unsafe_stat' = init_unsafe_stat(unsafe_stat, "Function", nid + 1, n,
                                                      metrics.counters.exprs.unsafe_)
                    /\ unsafe_scopes' = enter_unsafe_scope(unsafe_scopes)
               ELSE UNCHANGED <<unsafe_stat, unsafe_scopes>>
            /\ metrics' = [metrics EXCEPT !.counters.functions =
                               count(@, unsafe_fn(unsafety, attr))]
            /\ stack' = Append(Child(stack), Frame("Fn", n, unsafety, attr))
            /\ attr_opens' = IF attr /\ ~unsafety THEN attr_opens + 1 ELSE attr_opens
            /\ recent' = IF unsafety \/ attr THEN Entered("Function", n) ELSE recent
            /\ nid' = nid + 1
            /\ last' = Node("Fn", unsafety, attr, test)
            /\ UNCHANGED <<include_tests, output, pc, closed>>

\* visit_item_fn after the recursion.
visit_item_fn_return ==
    /\ CanReturn({"Fn"})
    /\ IF fn_exits_scope(Top.unsafety, Top.attr) THEN LeaveScope ELSE LeaveOnly
    /\ last' = NoNode
    /\ UNCHANGED <<include_tests, metrics, nid, attr_opens, seen_region, recent>>

\* visit_expr, with visit_expr_unsafe and visit_expr_unary where it calls them,
\* up to the recursion into the expression.
visit_expr(kind, n) ==
    /\ CanVisit(ExprParents)
    /\ Fits(n)
    /\ kind \in {"Path", "Lit"} => n = 0
    /\ kind \in {"Deref", "Neg"} => n <= 1
    /\ nid' = nid + 1
    /\ last' = Node(kind, kind = "Unsafe", FALSE, FALSE)
    /\ seen_region' = (seen_region \/ kind = "Unsafe")
    /\ recent' = IF kind = "Unsafe" THEN Entered("Inner", n) ELSE recent
    /\ UNCHANGED <<include_tests, output, pc, closed, attr_opens>>
    /\ CASE expr_arm(kind) = "unsafe" ->
              /\ unsafe_scopes' = enter_unsafe_scope(unsafe_scopes)
              /\ unsafe_stat' = init_unsafe_stat(unsafe_stat, "Inner", nid + 1, n,
                                                metrics.counters.exprs.unsafe_)
              /\ stack' = Append(Child(stack), Frame("Unsafe", n, TRUE, FALSE))
              /\ UNCHANGED metrics
         [] expr_arm(kind) = "trivial" ->
              /\ stack' = Consume(stack)
              /\ UNCHANGED <<metrics, unsafe_scopes, unsafe_stat>>
         [] OTHER ->
              /\ metrics' = [metrics EXCEPT !.counters.exprs =
                                 count(@, in_unsafe_scope(unsafe_scopes))]
              /\ IF kind \in {"Deref", "Neg"} /\ in_unsafe_scope(unsafe_scopes)
                    /\ is_deref(kind)
                 THEN unsafe_stat' = [unsafe_stat EXCEPT !.has_deref = TRUE]
                 ELSE UNCHANGED unsafe_stat
              /\ stack' = Append(IF kind = "Deref" THEN MarkDeref(Child(stack))
                                                   ELSE Child(stack),
                                 Frame(kind, n, FALSE, FALSE))
              /\ UNCHANGED unsafe_scopes

\* visit_expr after visit_expr_unsafe: the Expr::Unsafe arm leaves its scope.
visit_expr_return ==
    /\ CanReturn({"Unsafe"})
    /\ LeaveScope
    /\ last' = NoNode
    /\ UNCHANGED <<include_tests, metrics, nid, attr_opens, seen_region, recent>>

\* visit_item_mod.
visit_item_mod(test, n) ==
    /\ CanVisit(ItemParents)
    /\ IF excluded(include_tests, test)
       THEN Skip(Node("Mod", FALSE, FALSE, test))
       ELSE /\ Fits(n)
            /\ stack' = Append(Child(stack), Frame("Mod", n, FALSE, FALSE))
            /\ nid' = nid + 1
            /\ last' = Node("Mod", FALSE, FALSE, test)
            /\ UNCHANGED <<include_tests, metrics, unsafe_scopes, unsafe_stat,
                           output, pc, closed, attr_opens, recent>>
    /\ UNCHANGED seen_region

\* visit_item_impl up to the recursion.
visit_item_impl(unsafety, n) ==
    /\ CanVisit(ItemParents)
    /\ Fits(n)
    /\ metrics' = [metrics EXCEPT !.counters.item_impls =
                       count(@, item_is_unsafe(unsafety, unsafe_scopes))]
    /\ stack' = Append(Child(stack), Frame("Impl", n, unsafety, FALSE))
    /\ nid' = nid + 1
    /\ last' = Node("Impl", unsafety, FALSE, FALSE)
    /\ seen_region' = (seen_region \/ unsafety)
    /\ UNCHANGED <<include_tests, unsafe_scopes, unsafe_stat, output, pc, closed,
                   attr_opens, recent>>

\* visit_item_trait.  The items of a trait have no handler in this visitor and
\* are not modelled: the default walk over them returns at once.
visit_item_trait(unsafety) ==
    /\ CanVisit(ItemParents)
    /\ Fits(0)
    /\ metrics' = [metrics EXCEPT !.counters.item_traits =
                       count(@, item_is_unsafe(unsafety, unsafe_scopes))]
    /\ stack' = Child(stack)
    /\ nid' = nid + 1
    /\ last' = Node("Trait", unsafety, FALSE, FALSE)
    /\ seen_region' = (seen_region \/ unsafety)
    /\ UNCHANGED <<include_tests, unsafe_scopes, unsafe_stat, output, pc, closed,
                   attr_opens, recent>>

\* visit_impl_item_method up to the recursion into the method.
visit_impl_item_method(unsafety, n) ==
    /\ CanVisit({"Impl"})
    /\ Fits(n)
    /\ IF unsafety
       THEN /\ unsafe_stat' = init_unsafe_stat(unsafe_stat, "Method", nid + 1, n,
                                              metrics.counters.exprs.unsafe_)
            /\ unsafe_scopes' = enter_unsafe_scope(unsafe_scopes)
       ELSE UNCHANGED <<unsafe_stat, unsafe_scopes>>
    /\ metrics' = [metrics EXCEPT !.counters.methods = count(@, unsafety)]
    /\ stack' = Append(Child(stack), Frame("Method", n, unsafety, FALSE))
    /\ recent' = IF unsafety THEN Entered("Method", n) ELSE recent
    /\ nid' = nid + 1
    /\ last' = Node("Method", unsafety, FALSE, FALSE)
    /\ seen_region' = (seen_region \/ unsafety)
    /\ UNCHANGED <<include_tests, output, pc, closed, attr_opens>>

\* visit_impl_item_method after the recursion.
visit_impl_item_method_return ==
    /\ CanReturn({"Method"})
    /\ IF Top.unsafety THEN LeaveScope ELSE LeaveOnly
    /\ last' = NoNode
    /\ UNCHANGED <<include_tests, metrics, nid, attr_opens, seen_region, recent>>

\* A statement that holds no expression and no item (a let without
\* initialiser): syn's default visit_stmt finds nothing to hand to a handler.
visit_stmt_local ==
    /\ CanVisit(StmtParents)
    /\ Fits(0)
    /\ stack' = Child(stack)
    /\ nid' = nid + 1
    /\ last' = Node("Local", FALSE, FALSE, FALSE)
    /\ UNCHANGED <<include_tests, metrics, unsafe_scopes, unsafe_stat, output,
                   pc, closed, attr_opens, seen_region, recent>>

\* syn's default visit_* return: handlers of this visitor that end with the
\* recursion (visit_item_mod, visit_item_impl, the `other` arm of visit_expr,
\* visit_expr_unary) return with it.
visit_default_return ==
    /\ CanReturn({"Mod", "Impl", "Other", "Deref", "Neg"})
    /\ LeaveOnly
    /\ last' = NoNode
    /\ UNCHANGED <<include_tests, metrics, nid, attr_opens, seen_region, recent>>

Children == 0 .. MaxChildren

Next ==
    \/ \E n \in Children, forbids \in BOOLEAN : visit_file(n, forbids)
    \/ visit_file_return
    \/ \E unsafety \in BOOLEAN, attr \in BOOLEAN, test \in BOOLEAN, n \in Children :
           visit_item_fn(unsafety, attr, test, n)
    \/ visit_item_fn_return
    \/ \E kind \in ExprKinds, n \in Children : visit_expr(kind, n)
    \/ visit_expr_return
    \/ \E test \in BOOLEAN, n \in Children : visit_item_mod(test, n)
    \/ \E unsafety \in BOOLEAN, n \in Children : visit_item_impl(unsafety, n)
    \/ \E unsafety \in BOOLEAN : visit_item_trait(unsafety)
    \/ \E unsafety \in BOOLEAN, n \in Children : visit_impl_item_method(unsafety, n)
    \/ visit_impl_item_method_return
    \/ visit_stmt_local
    \/ visit_default_return

Spec == Init /\ [][Next]_vars

\* ================================================================= claims
Counters == metrics.counters

\* C1: after a full scan the depth counter is back at 0 (as many scopes
\* entered as left), whatever mix of unsafe blocks, unsafe functions,
\* attribute-marked functions and unsafe methods the file holds.
C1_DepthBalancedAfterScan == pc = "done" => unsafe_scopes = 0

\* C2: the depth counter never goes below the number of open handlers that
\* still have to leave their scope, so every exit_unsafe_scope runs at depth
\* >= 1 and no subtraction leaves its range.
C2_ExitNeverUnderflows ==
    /\ pc # "overflow"
    /\ unsafe_scopes >= 0
    /\ unsafe_scopes >= Exiting(stack)

\* A scan in which a nested scope and then its enclosing scope were left, down
\* to depth 0.
C2_Witness ==
    /\ pc = "done"
    /\ Len(closed) >= 2
    /\ closed[1].id > closed[2].id
    /\ unsafe_scopes = 0

\* C3: a counted expression goes to the unsafe bucket exactly when an unsafe
\* scope of the source text encloses it, to the safe bucket otherwise.
C3_ExprBucketIsLexical ==
    [][Counters'.exprs # Counters.exprs
         => Counters'.exprs = count(Counters.exprs, LexDepth(stack) > 0)]_vars

\* C4: after the scan of a file in which no node carries an unsafe marker,
\* every unsafe bucket is 0, the depth counter is 0 and nothing was printed.
C4_NoRegionNoUnsafeCount ==
    (pc = "done" /\ ~seen_region) =>
        /\ \A c \in DOMAIN Counters : Counters[c].unsafe_ = 0
        /\ unsafe_scopes = 0
        /\ output = <<>>

\* A finished scan of such a file that counted a function and an expression.
C4_Witness ==
    /\ pc = "done"
    /\ ~seen_region
    /\ Counters.functions.safe >= 1
    /\ Counters.exprs.safe >= 1

\* C5: the line printed when a scope is left carries the dereference marker
\* whenever a dereference was visited while that scope was open.
C5_DerefMarksEveryEnclosingScope ==
    \A i \in DOMAIN output : closed[i].deref => output[i].deref

\* C6: visiting a dereference that no unsafe scope of the source text
\* encloses leaves the dereference flag as it was.
C6_DerefOutsideLeavesFlag ==
    [][(last'.kind = "Deref" /\ LexDepth(stack) = 0)
         => unsafe_stat'.has_deref = unsafe_stat.has_deref]_vars

\* C7: a printed line carries the dereference marker only if a dereference
\* was visited between the entry and the exit of the scope it is printed for.
C7_MarkerOnlyForOwnDeref ==
    \A i \in DOMAIN output : output[i].deref => closed[i].deref

\* C8 (as claimed): a function is counted by the depth counter's value before
\* its own scope is entered.
C8_FnCountedByDepth ==
    [][Counters'.functions # Counters.functions
         => Counters'.functions = count(Counters.functions, unsafe_scopes > 0)]_vars

\* C8 (amended): a function is counted by its own unsafety (marker or
\* attribute), whatever the depth counter is.
C8_FnCountedByOwnUnsafety ==
    [][Counters'.functions # Counters.functions
         => /\ last'.kind = "Fn"
            /\ stack'[Len(stack')].id = last'.id
            /\ Counters'.functions =
                   count(Counters.functions,
                         stack'[Len(stack')].unsafety \/ stack'[Len(stack')].attr)]_vars

\* An unsafe function entered at depth 0 and counted unsafe, and inside it a
\* safe function entered at depth > 0 and counted safe.
C8_Witness ==
    /\ Len(stack) >= 3
    /\ stack[2].kind = "Fn" /\ stack[2].unsafety /\ stack[2].d0 = 0
    /\ Top.kind = "Fn" /\ ~Top.unsafety /\ ~Top.attr /\ Top.d0 > 0
    /\ Counters.functions = [safe |-> 1, unsafe_ |-> 1]

\* The step in which visit_item_fn returns.
FnReturns == pc = "scan" /\ stack # <<>> /\ Top.kind = "Fn" /\ Len(stack') = Len(stack) - 1

AttrFnEnters ==
    /\ last'.kind = "Fn"
    /\ Len(stack') = Len(stack) + 1
    /\ stack'[Len(stack')].attr
    /\ ~stack'[Len(stack')].unsafety

C10_TrivialExprNotCounted ==
    [][last'.kind \in {"Path", "Lit"}
         => /\ Counters'.exprs = Counters.exprs
            /\ stack' = Consume(stack)]_vars

\* A bare path just visited inside an unsafe block, nothing counted.
C10_Witness ==
    /\ last.kind \in {"Path", "Lit"}
    /\ LexDepth(stack) > 0
    /\ unsafe_scopes > 0
    /\ Counters.exprs = [safe |-> 0, unsafe_ |-> 0]

\* Expr variants that take the `other` arm of visit_expr.
CountedKinds == {"Deref", "Neg", "Other"}

C12_TestItemsExcluded ==
    [][(last'.kind \in {"Fn", "Mod"} /\ last'.test) =>
         IF include_tests = "No"
         THEN /\ UNCHANGED <<metrics, unsafe_scopes, unsafe_stat, output>>
              /\ Len(stack') = Len(stack)
         ELSE /\ Len(stack') = Len(stack) + 1
              /\ stack'[Len(stack')].id = last'.id
              /\ last'.kind = "Fn" =>
                     Counters'.functions =
                         count(Counters.functions, last'.unsafety \/ last'.attr)]_vars

\* An unsafe test function just left out inside an open unsafe scope.
C12_Witness ==
    /\ include_tests = "No"
    /\ last.kind = "Fn"
    /\ last.test
    /\ last.unsafety
    /\ unsafe_scopes = 1
    /\ Counters.functions.safe + Counters.functions.unsafe_ = 1

\* The finished scan of a file whose only function is safe and whose only
\* unsafe scope is one unsafe block with a dereference inside.
OneBlockFile ==
    /\ pc = "done"
    /\ Counters.functions.safe + Counters.functions.unsafe_ = 1
    /\ Counters.methods = [safe |-> 0, unsafe_ |-> 0]
    /\ attr_opens = 0
    /\ Len(closed) = 1
    /\ closed[1].kind = "Unsafe"
    /\ closed[1].deref

ScopeReturns ==
    /\ pc = "scan"
    /\ stack # <<>>
    /\ Len(stack') = Len(stack) - 1
    /\ \/ Top.kind = "Unsafe"
       \/ Top.kind \in {"Fn", "Method"} /\ Top.unsafety

\* C14: one line is printed by every such return and by no other step, and
\* every scope left earlier either lies inside the one being left or ends
\* before it starts: inner before outer, siblings in source order.
C14_OneLinePerExitInOrder ==
    [][IF ScopeReturns
       THEN /\ Len(output') = Len(output) + 1
            /\ SubSeq(output', 1, Len(output)) = output
            /\ \A i \in DOMAIN closed :
                   \/ closed[i].end < Top.id
                   \/ closed[i].id > Top.id /\ closed[i].end <= nid
       ELSE output' = output]_vars

\* Two sibling blocks inside an unsafe function: three lines, the blocks in
\* source order, the function last.
C14_Witness ==
    /\ Len(output) = 3
    /\ closed[1].id = 2
    /\ closed[2].id = 3
    /\ closed[3].id = 1

\* C15: an impl or a trait raises one bucket of its own counter by one, chosen
\* by its own unsafe marker whatever the depth, and leaves the depth counter,
\* the statistics slot and the output alone.
C15_ImplTraitByOwnMarker ==
    [][last'.kind \in {"Impl", "Trait"} =>
         /\ Counters' =
                IF last'.kind = "Impl"
                THEN [Counters EXCEPT !.item_impls = count(@, last'.unsafety)]
                ELSE [Counters EXCEPT !.item_traits = count(@, last'.unsafety)]
         /\ UNCHANGED <<unsafe_scopes, unsafe_stat, output>>]_vars

\* A safe impl visited at depth > 0 and counted safe.
C15_Witness ==
    /\ last.kind = "Impl"
    /\ ~last.unsafety
    /\ unsafe_scopes > 0
    /\ Counters.item_impls = [safe |-> 1, unsafe_ |-> 0]

\* The step in which visit_impl_item_method returns.
MethodReturns ==
    pc = "scan" /\ stack # <<>> /\ Top.kind = "Method" /\ Len(stack') = Len(stack) - 1

\* C16: visit_impl_item_method returns with the depth counter at its entry
\* value, an unsafe method having printed one line and a safe one none; while
\* an unsafe method is open the depth is >= 1.
C16_MethodRestoresDepth ==
    [][/\ MethodReturns =>
            /\ unsafe_scopes' = Top.d0
            /\ IF Top.unsafety THEN Len(output') = Len(output) + 1
                               ELSE output' = output
       /\ \A i \in DOMAIN stack :
            (stack[i].kind = "Method" /\ stack[i].unsafety) => unsafe_scopes >= 1]_vars

\* The counter a node of each kind is counted in.
Category(kind) ==
    CASE kind = "Fn" -> "functions"
      [] kind = "Method" -> "methods"
      [] kind = "Impl" -> "item_impls"
      [] kind = "Trait" -> "item_traits"
      [] kind \in CountedKinds -> "exprs"
      [] OTHER -> "none"

\* C17: no bucket ever decreases; a step that changes the counters hands a new
\* node to a handler and raises exactly one bucket of that node's category by
\* one.
C17_OneBucketPerNode ==
    [][LET changed == {c \in DOMAIN Counters : Counters'[c] # Counters[c]} IN
       /\ \A c \in DOMAIN Counters :
              /\ Counters'[c].safe >= Counters[c].safe
              /\ Counters'[c].unsafe_ >= Counters[c].unsafe_
       /\ changed # {} =>
              /\ nid' = nid + 1
              /\ last'.id = nid'
              /\ changed = {Category(last'.kind)}
              /\ \A c \in changed :
                     \/ Counters'[c] = [Counters[c] EXCEPT !.safe = @ + 1]
                     \/ Counters'[c] = [Counters[c] EXCEPT !.unsafe_ = @ + 1]]_vars

\* An unsafe method counted after its safe impl: two categories, one bucket
\* each.
C17_Witness ==
    /\ last.kind = "Method"
    /\ Counters.methods = [safe |-> 0, unsafe_ |-> 1]
    /\ Counters.item_impls = [safe |-> 1, unsafe_ |-> 0]

\* Line j is printed for a scope that had a nested scope left just before.
OuterAfterNested(j) == j >= 2 /\ closed[j - 1].id > closed[j].id

\* C18 (as claimed): the delta on the outer scope's line is the number of
\* unsafe expressions counted after its last nested scope was left.
C18_DeltaSinceNestedExit ==
    \A j \in DOMAIN output :
        OuterAfterNested(j) => output[j].expr = closed[j].eu - closed[j - 1].eu

\* C18 (amended): the delta on the outer scope's line is the number of unsafe
\* expressions counted since the most recently entered scope, a scope nested
\* in it, was entered: those counted inside that nested scope are included.
C18_DeltaSinceLastEntry ==
    \A j \in DOMAIN output :
        OuterAfterNested(j) =>
            /\ closed[j].slot.id > closed[j].id
            /\ output[j].expr = closed[j].eu - closed[j].slot.eu0

\* An unsafe function around an unsafe block holding one expression: nothing
\* is counted after the block, the function's line says 1.
C18_Witness ==
    /\ Len(output) = 2
    /\ OuterAfterNested(2)
    /\ closed[2].eu - closed[1].eu = 0
    /\ output[2].expr = 1

\* C19: the baseline in the statistics slot never exceeds the unsafe
\* expression count, so expr_curr - expr_prev is >= 0 on every line printed.
C19_DeltaNeverUnderflows ==
    /\ unsafe_stat.expr_prev <= Counters.exprs.unsafe_
    /\ \A j \in DOMAIN output : output[j].expr >= 0
    /\ pc # "overflow"

\* A line with a positive delta printed while an attribute-only function has
\* left its scope open.
C19_Witness ==
    /\ attr_opens >= 1
    /\ Len(output) >= 1
    /\ output[Len(output)].expr >= 1
    /\ unsafe_scopes >= 1

\* C20: every line shows the shape, text, statement count and baseline of the
\* scope entered most recently before it was printed, which is the scope being
\* left or one entered inside it; after a nested scope was left it is a nested
\* one.
C20_LineShowsLastEnteredScope ==
    \A j \in DOMAIN output :
        LET slot == closed[j].slot IN
        /\ output[j].block = slot.id
        /\ output[j].block_type = slot.shape
        /\ output[j].stmt = slot.stmt
        /\ output[j].expr = closed[j].eu - slot.eu0
        /\ closed[j].id <= slot.id
        /\ slot.id <= closed[j].end
        /\ OuterAfterNested(j) => output[j].block # closed[j].id

\* An unsafe function left after its nested block: the function's line shows
\* the block.
C20_Witness ==
    /\ Len(output) = 2
    /\ closed[2].kind = "Fn"
    /\ closed[1].kind = "Unsafe"
    /\ closed[1].id > closed[2].id
    /\ output[2].block = closed[1].id
    /\ output[2].block_type = "Inner"
    /\ output[2].stmt = closed[1].stmt
    /\ closed[2].stmt # closed[1].stmt

====
